---- MODULE Spec2Model ----
(***************************************************************************)
(* The periodic SFTP mirror of tsm-kartel: SFTPManager (the orchestrator,  *)
(* src/api/src/clients/sftp_manager.py), SFTPClient.download_file and      *)
(* SFTPClient._connect (src/api/src/clients/sftp_client.py), with_retries  *)
(* (src/api/src/utils/decorators.py) and the refresh-stats endpoint        *)
(* (src/api/src/api/endpoints/v1/routes.py).                               *)
(*                                                                         *)
(* The program is a set of asyncio tasks on one event loop.  A task runs   *)
(* without interruption from one await to the next: a program counter that *)
(* names a piece of synchronous code (SyncPcs) is held by at most one task *)
(* at a time and no other action runs until that task reaches its next     *)
(* await (the guard Quiet).  Time advances in ticks of 5 seconds, the      *)
(* common divisor of the delays in the code; a tick is possible only when  *)
(* no task is ready to run.                                                *)
(***************************************************************************)
EXTENDS Integers, Sequences, FiniteSets, TLC

\* ------------------------------------------------------------- bounds
\* number of concurrent callers of POST /refresh-stats
NumCallers == 2
\* settings.sftp_download_interval_seconds, in ticks of 5 seconds
IntervalTicks == 1
\* number of versions the remote file goes through; version v is v bytes long
MaxVersion == 2

\* ------------------------------------------------- program constants
\* SFTPManager.download_player_stats_db(max_retries=3)
max_retries == 3
\* @with_retries(max_retries=3, ...) on SFTPClient.download_file
wrapper_max_retries == 3
\* @with_retries(delay=5.0) on SFTPClient.download_file, seconds
delay == 5
\* with_retries(backoff=2.0)
backoff == 2
\* status.HTTP_503_SERVICE_UNAVAILABLE
HTTP_503_SERVICE_UNAVAILABLE == 503
\* status.HTTP_500_INTERNAL_SERVER_ERROR
HTTP_500_INTERNAL_SERVER_ERROR == 500
\* the status of a handler that returns normally
HTTP_200_OK == 200

Min(a, b) == IF a <= b THEN a ELSE b

RECURSIVE Pow(_, _)
Pow(b, n) == IF n = 0 THEN 1 ELSE b * Pow(b, n - 1)

\* seconds to ticks of 5 seconds, rounded up
Ticks(seconds) == (seconds + 4) \div 5

sftp_download_interval_seconds == 5 * IntervalTicks

\* sftp_manager.py:74  retry_delay = min(30, 5 * (attempt + 1))
retry_delay(attempt) == Min(30, 5 * (attempt + 1))

\* decorators.py:35,47  current_delay starts at delay and is multiplied by
\* backoff after every sleep
current_delay(attempt) == delay * Pow(backoff, attempt)

\* sftp_manager.py:171  asyncio.sleep(min(60, interval))
error_pause == Min(60, sftp_download_interval_seconds)

\* stop_periodic_download(timeout): the timeouts a caller passes, seconds
StopTimeouts == {5}

\* ------------------------------------------------------------ processes
Callers == {<<"req", i>> : i \in 1..NumCallers}
\* the asyncio.Task objects the periodic loop is spawned as
Tasks == {<<"loop", 1>>, <<"loop", 2>>}
\* the calls of stop_periodic_download in progress
Stoppers == {<<"stop", 1>>, <<"stop", 2>>}
\* one task object at a time, one stop call at a time: start and stop each
\* called by one owner, as lifespan does (app.py:38-50)
OneTask == {<<"loop", 1>>}
OneStopper == {<<"stop", 1>>}
\* a user of the SFTPClient who calls _connect and _close himself
ApiUsers == {<<"api", 1>>}
Procs == Callers \cup Tasks \cup ApiUsers
AllProcs == Procs \cup Stoppers
NoProc == <<"none", 0>>

\* ------------------------------------------------------ error taxonomy
\* sftp_client.py:25-38 and core/exceptions.py: the classes, with the
\* subclass relation of Python
SFTPErrorKinds ==
    {"SFTPError", "SFTPConnectionError", "SFTPAuthenticationError", "SFTPFileError"}

IsInstance(kind, classes) ==
    \/ kind \in classes
    \/ "SFTPError" \in classes /\ kind \in SFTPErrorKinds
    \/ "Exception" \in classes /\ kind \notin {"CancelledError", "none", "ok"}

\* ------------------------------------------------- host-key fingerprint
\* A fingerprint is a sequence of characters.
Lower(c) ==
    CASE c = "A" -> "a" [] c = "B" -> "b" [] c = "C" -> "c"
      [] c = "D" -> "d" [] c = "E" -> "e" [] c = "F" -> "f"
      [] OTHER -> c

RECURSIVE Strip(_)
Strip(s) ==
    IF s = <<>> THEN s
    ELSE IF Head(s) = " " THEN Strip(Tail(s))
    ELSE IF s[Len(s)] = " " THEN Strip(SubSeq(s, 1, Len(s) - 1))
    ELSE s

RECURSIVE RemoveColons(_)
RemoveColons(s) ==
    IF s = <<>> THEN s
    ELSE IF Head(s) = ":" THEN RemoveColons(Tail(s))
    ELSE <<Head(s)>> \o RemoveColons(Tail(s))

\* sftp_client.py:203-205  fp.strip().lower().replace(":", "")
_normalize_md5_fingerprint(fp) ==
    LET f == [i \in 1..Len(Strip(fp)) |-> Lower(Strip(fp)[i])]
    IN  RemoveColons(f)

\* sftp_client.py:207-212; key is key.get_fingerprint().hex(), lower-case hex
_fingerprint_matches(expected, key) ==
    key = _normalize_md5_fingerprint(expected)

\* sftp_client.py:160-176: _FingerprintPolicy.missing_host_key accepts the key
\* iff its hex digest equals the normalized expected fingerprint; without a
\* configured fingerprint AutoAddPolicy accepts every key
PolicyAccepts(fp, key) ==
    IF fp # <<>> THEN key = _normalize_md5_fingerprint(fp) ELSE TRUE

\* the keys a server may present, as hex digests
ServerKeys == {<<"a", "b", "0", "1">>, <<"e", "f", "0", "2">>}

\* settings.sftp_host_key_fingerprint: <<>> is None (not configured)
Fingerprints == {<<>>, <<" ", "A", "B", ":", "0", "1">>}

\* What _create_ssh_client_sync and the host-key check of _connect
\* (sftp_client.py:115-135, 156-200) do with the event of the negotiation and
\* the key the server presents: "ok", or the exception class that leaves
\* the to_thread call or the check.
Negotiation_NoVerify(fp, key, event) ==
    IF event # "ok" THEN event ELSE "ok"

Negotiation(fp, key, event) ==
    IF event # "ok" THEN event
    ELSE IF ~PolicyAccepts(fp, key) THEN "SSHException"
    ELSE IF fp # <<>> /\ ~_fingerprint_matches(fp, key) THEN "SFTPConnectionError"
    ELSE "ok"

\* sftp_client.py:140-154: the except clauses of _connect, in order; an
\* exception class none of them names leaves _connect as it is
ConnectRaises_Generic(exc) ==
    CASE exc = "AuthenticationException" -> "SFTPAuthenticationError"
      [] exc = "NoValidConnectionsError" -> "SFTPConnectionError"
      [] exc \in {"RuntimeError", "SSHException"} -> "SFTPError"
      [] OTHER -> exc

ConnectRaises(exc) ==
    CASE exc = "AuthenticationException" -> "SFTPAuthenticationError"
      [] exc = "SSHException" -> "SFTPConnectionError"
      [] exc = "NoValidConnectionsError" -> "SFTPConnectionError"
      [] exc = "RuntimeError" -> "SFTPError"
      [] OTHER -> exc

\* sftp_client.py:140, 145, 150: the exception classes the except clauses of
\* _connect name; their handlers call _close before they raise
ConnectCatches ==
    {"AuthenticationException", "SSHException", "NoValidConnectionsError",
     "RuntimeError"}

\* sftp_client.py:319-323: the except clauses of download_file
DownloadFileRaises_WrapAll(exc) ==
    IF exc \in {"ok", "none", "CancelledError", "TimeoutError"} THEN exc
    ELSE "SFTPError"

DownloadFileRaises(exc) ==
    IF IsInstance(exc, {"SFTPError", "TimeoutError"}) THEN exc
    ELSE IF exc \in {"OSError", "IOError", "SSHException"} THEN "SFTPError"
    ELSE exc

\* events of the negotiation (the to_thread call of _connect), of open_sftp
\* and of the stat round-trip.  SSHClient.connect and open_sftp raise what the
\* transport thread saved when the connection died: an SSHException, a socket
\* error (OSError) or EOFError
ConnectEvents == {"ok", "AuthenticationException", "SSHException", "OSError", "EOFError"}
OpenSftpEvents == {"ok", "SSHException", "OSError"}
StatEvents == {"ok", "IOError"}

\* ------------------------------------------------------------------ files
Versions == 1..MaxVersion
\* the size in bytes of version v of the remote file
Size(v) == v
NoFile == [exists |-> FALSE, ver |-> 0, len |-> 0, expect |-> 0]
NoCache == [present |-> FALSE, size |-> 0, fresh |-> FALSE]


\* --------------------------------------------------------------- state
VARIABLES
    pc,          \* where each task is: an await it is suspended at, or a piece
                 \* of synchronous code it is running
    att,         \* download_player_stats_db: attempt of the for loop
    inner,       \* with_retries.wrapper: attempt of the for loop
    timer,       \* ticks left of the timed wait a task is in
    pend,        \* the outcome in flight in download_file: "ok" or an exception
    nfetch,      \* executions of download_file's body started by the current call
    ret,         \* what the last download_player_stats_db call returned or raised
    resp,        \* the last HTTP response of refresh_stats, per caller
    lockHolder,  \* SFTPManager._download_lock: the holder
    lockWaiters, \* SFTPManager._download_lock: the waiters, in order
    shutdown,    \* SFTPManager._shutdown_event
    taskRef,     \* SFTPManager._download_task
    firstRun,    \* _periodic_download_loop: first_run, per task
    cancelReq,   \* Task.cancel() was called and CancelledError is not yet thrown
    waited,      \* the task a stop_periodic_download call awaits
    ssh,         \* SFTPClient._ssh_client is set
    sftp,        \* SFTPClient._sftp_client is set
    active,      \* the transport of _ssh_client reports is_active()
    presented,   \* the host key presented in the negotiation of this attempt
    fingerprint, \* SFTPClient.host_key_fingerprint
    cache,       \* SFTPClient._cache: the entry of the remote path
    stats,       \* download_file: stats.st_size
    local_size,  \* download_file: local_size, -1 before line 307
    tmp,         \* the temp file of the running download_file
    mirror,      \* the file at settings.player_stats_db_path
    before,      \* the mirror when the running download_file began
    remote,      \* the version of the remote file
    syncs,       \* downloads a loop task has started, counted to 2
    elapsed,     \* ticks since a loop task last started a download (or was
                 \* created), counted to IntervalTicks
    wr,          \* with_retries.wrapper around any function: its arguments,
                 \* its locals and what the function did at each invocation
    at_entry     \* the mirror when the holder of the download lock entered
                 \* the for loop of download_player_stats_db

procv == <<pc, att, inner, timer, pend, nfetch, ret>>
lockv == <<lockHolder, lockWaiters>>
clientv == <<ssh, sftp, active, presented, cache>>
filev == <<stats, local_size, tmp, mirror, before>>
envv == <<remote, fingerprint>>
mgrv == <<shutdown, taskRef, firstRun, cancelReq, waited>>
obsv == <<resp, syncs, elapsed>>
vars == <<procv, lockv, clientv, filev, envv, mgrv, obsv, wr, at_entry>>

\* the pieces of synchronous code
SyncPcs ==
    {"attempt_top", "wrapper_try", "body", "verify", "close", "cleanup",
     "wrapper_catch", "orch_catch", "release", "respond", "loop_top",
     "stop_raised", "api_return"}

\* the timed waits
TimedPcs == {"retry_sleep", "backoff", "interval_wait", "error_sleep", "stop_wait"}

\* inside download_file: the connect -> stat -> fetch -> verify -> rename
\* sequence and its cleanup
DownloadPcs ==
    {"wrapper_try", "connect", "open_sftp", "body", "stat", "fetch", "verify",
     "close", "close_sftp", "close_ssh", "cleanup", "wrapper_catch"}

\* no task is running synchronous code: the event loop may start a callback
Quiet == \A q \in AllProcs : pc[q] \notin SyncPcs

\* the event loop resumes p with the outcome of what it awaits: after
\* Task.cancel() the next thing thrown into the task is CancelledError
\* (CancelDeliver), whatever its await has produced
Resumes(p) ==
    /\ Quiet
    /\ p \in Tasks => ~cancelReq[p]

NoResponse == [status |-> 0, detail |-> ""]

\* decorators.py:33: no failure caught yet
NoError == [kind |-> "none", n |-> 0]

\* no decorated function has been called yet
NoWrapper ==
    [pc |-> "idle", max_retries |-> 1, delay |-> 0, backoff |-> 0,
     exceptions |-> {}, attempt |-> 0, current_delay |-> 0,
     last_error |-> NoError, errors |-> <<>>, calls |-> 0, waits |-> <<>>,
     sleeps |-> 0, value |-> "none", result |-> "none"]

InitWith(fps) ==
    /\ pc = [q \in AllProcs |-> IF q \in Tasks THEN "unborn" ELSE "idle"]
    /\ att = [q \in Procs |-> 0]
    /\ inner = [q \in Procs |-> 0]
    /\ timer = [q \in AllProcs |-> 0]
    /\ pend = [q \in Procs |-> "none"]
    /\ nfetch = [q \in Procs |-> 0]
    /\ ret = [q \in Procs |-> "none"]
    /\ resp = [c \in Callers |-> NoResponse]
    /\ lockHolder = NoProc
    /\ lockWaiters = <<>>
    /\ shutdown = FALSE
    /\ taskRef = NoProc
    /\ firstRun = [t \in Tasks |-> TRUE]
    /\ cancelReq = [t \in Tasks |-> FALSE]
    /\ waited = [s \in Stoppers |-> NoProc]
    /\ ssh = FALSE
    /\ sftp = FALSE
    /\ active = FALSE
    /\ presented = <<>>
    /\ fingerprint \in fps
    /\ cache = NoCache
    /\ stats = 0
    /\ local_size = -1
    /\ tmp = NoFile
    /\ mirror = NoFile
    /\ before = NoFile
    /\ remote = 1
    /\ syncs = [t \in Tasks |-> 0]
    /\ elapsed = [t \in Tasks |-> 0]
    /\ wr = NoWrapper
    /\ at_entry = NoFile

\* the state after the construction of the manager (sftp_manager.py:18-32,
\* sftp_client.py:67-77), with a fingerprint configured
Init == InitWith(Fingerprints \ {<<>>})

\* the same, with or without a fingerprint configured
InitFaults == InitWith(Fingerprints)


\* ------------------------------------------------------ the download call
\* sftp_manager.py:34-50: a call of download_player_stats_db reaches
\* "async with self._download_lock".  asyncio.Lock.acquire takes a free lock
\* with no waiters at once and queues the caller otherwise.
Enter_NoLock(p) ==
    /\ pc' = [pc EXCEPT ![p] = "attempt_top"]
    /\ att' = [att EXCEPT ![p] = 0]
    /\ nfetch' = [nfetch EXCEPT ![p] = 0]
    /\ ret' = [ret EXCEPT ![p] = "none"]
    /\ UNCHANGED lockv

Enter(p) ==
    /\ att' = [att EXCEPT ![p] = 0]
    /\ nfetch' = [nfetch EXCEPT ![p] = 0]
    /\ ret' = [ret EXCEPT ![p] = "none"]
    /\ IF lockHolder = NoProc /\ lockWaiters = <<>>
       THEN /\ lockHolder' = p
            /\ lockWaiters' = lockWaiters
            /\ pc' = [pc EXCEPT ![p] = "attempt_top"]
       ELSE /\ lockHolder' = lockHolder
            /\ lockWaiters' = Append(lockWaiters, p)
            /\ pc' = [pc EXCEPT ![p] = "lock_wait"]

\* routes.py:29: a request reaches "await download_player_stats_db()"
Request(c) ==
    /\ Quiet
    /\ pc[c] = "idle"
    /\ Enter(c)
    /\ UNCHANGED <<resp, inner, timer, pend, clientv, filev, envv, mgrv, syncs, elapsed,
                   wr, at_entry>>

\* asyncio.Lock: release woke the first waiter, which now takes the lock
LockGranted(p) ==
    /\ Resumes(p)
    /\ pc[p] = "lock_wait"
    /\ lockHolder = NoProc
    /\ lockWaiters # <<>>
    /\ Head(lockWaiters) = p
    /\ lockHolder' = p
    /\ lockWaiters' = Tail(lockWaiters)
    /\ pc' = [pc EXCEPT ![p] = "attempt_top"]
    /\ UNCHANGED <<att, inner, timer, pend, nfetch, ret, clientv, filev, envv, mgrv, obsv,
                   wr, at_entry>>

\* sftp_manager.py:51-54 and 90-94: the head of the for loop
AttemptTop_NoShutdownCheck(p) ==
    /\ pc[p] = "attempt_top"
    /\ IF att[p] >= max_retries
       THEN /\ ret' = [ret EXCEPT ![p] = "False"]
            /\ pc' = [pc EXCEPT ![p] = "release"]
            /\ inner' = inner
       ELSE /\ ret' = ret
            /\ pc' = [pc EXCEPT ![p] = "wrapper_try"]
            /\ inner' = [inner EXCEPT ![p] = 0]
    /\ at_entry' = IF att[p] = 0 THEN mirror ELSE at_entry
    /\ UNCHANGED <<att, timer, pend, nfetch, lockv, clientv, filev, envv, mgrv, obsv,
                   wr>>

AttemptTop(p) ==
    /\ pc[p] = "attempt_top"
    /\ IF att[p] >= max_retries \/ shutdown
       THEN /\ ret' = [ret EXCEPT ![p] = "False"]
            /\ pc' = [pc EXCEPT ![p] = "release"]
            /\ inner' = inner
       ELSE /\ ret' = ret
            /\ pc' = [pc EXCEPT ![p] = "wrapper_try"]
            /\ inner' = [inner EXCEPT ![p] = 0]
    /\ at_entry' = IF att[p] = 0 THEN mirror ELSE at_entry
    /\ UNCHANGED <<att, timer, pend, nfetch, lockv, clientv, filev, envv, mgrv, obsv,
                   wr>>

\* sftp_client.py:99-105: _connect returns at once when both references are
\* set and the transport reports active
Reusable_NoActiveCheck == sftp /\ ssh

Reusable == sftp /\ ssh /\ active

\* where p goes on when _connect has returned: into the body of
\* connection() (sftp_client.py:89-90), or back to the user who called it
AfterConnect(p) == IF p \in ApiUsers THEN "api_return" ELSE "body"

\* where p goes on when _close has returned, or an exception has left
\* _connect or _close: to the except and finally clauses of download_file
\* (sftp_client.py:319-332), or back to the user who called it
AfterClose(p) == IF p \in ApiUsers THEN "api_return" ELSE "cleanup"

\* decorators.py:36 and sftp_client.py:278-279, 88, 94-116: the wrapper calls
\* download_file, which enters connection(), which calls _connect; an active
\* connection is reused, else the negotiation starts in a thread
WrapperTry(p) ==
    /\ pc[p] = "wrapper_try"
    /\ nfetch' = [nfetch EXCEPT ![p] = nfetch[p] + 1]
    /\ pend' = [pend EXCEPT ![p] = "none"]
    /\ before' = mirror
    /\ local_size' = -1
    /\ pc' = [pc EXCEPT ![p] = IF Reusable THEN "body" ELSE "connect"]
    /\ UNCHANGED <<att, inner, timer, ret, lockv, clientv, stats, tmp, mirror,
                   envv, mgrv, obsv, wr, at_entry>>

\* sftp_client.py:116-135, 140-154: the negotiation ends; the host key is
\* checked; a failure is mapped by the except clauses, which close the handle
ConnectDone(p, keys, events) ==
    /\ Resumes(p)
    /\ pc[p] = "connect"
    /\ \E key \in keys, event \in events :
         LET out == Negotiation(fingerprint, key, event) IN
         /\ presented' = IF event = "ok" THEN key ELSE <<>>
         /\ IF out = "ok"
            THEN /\ ssh' = TRUE
                 /\ active' = TRUE
                 /\ pend' = pend
                 /\ pc' = [pc EXCEPT ![p] = "open_sftp"]
            ELSE /\ ssh' = IF out = "SFTPConnectionError" THEN TRUE ELSE ssh
                 /\ active' = IF out = "SFTPConnectionError" THEN TRUE ELSE active
                 /\ pend' = [pend EXCEPT ![p] = ConnectRaises(out)]
                 /\ pc' = [pc EXCEPT ![p] =
                              IF out \in ConnectCatches \cup {"SFTPConnectionError"}
                              THEN "close" ELSE AfterClose(p)]
    /\ UNCHANGED <<att, inner, timer, nfetch, ret, lockv, sftp, cache, filev,
                   envv, mgrv, obsv, wr, at_entry>>

\* sftp_client.py:138: open_sftp ends
OpenSftpDone(p, events) ==
    /\ Resumes(p)
    /\ pc[p] = "open_sftp"
    /\ \E event \in events :
         IF event = "ok"
         THEN /\ sftp' = TRUE
              /\ pend' = [pend EXCEPT ![p] = IF p \in ApiUsers THEN "ok" ELSE @]
              /\ pc' = [pc EXCEPT ![p] = AfterConnect(p)]
         ELSE /\ sftp' = sftp
              /\ pend' = [pend EXCEPT ![p] = ConnectRaises(event)]
              /\ pc' = [pc EXCEPT ![p] =
                           IF event \in ConnectCatches THEN "close" ELSE AfterClose(p)]
    /\ UNCHANGED <<att, inner, timer, nfetch, ret, lockv, ssh, active, presented, cache,
                   filev, envv, mgrv, obsv, wr, at_entry>>

\* caching.py:38-43: Cache.get returns the value of an unexpired entry
CacheHit_Never == FALSE

CacheHit_IgnoreExpiry == cache.present

CacheHit == cache.present /\ cache.fresh

\* sftp_client.py:280-304, 241-250: the temp file is created; the stat is
\* taken from the cache or asked of the server; on a cache hit the fetch starts
Body(p) ==
    /\ pc[p] = "body"
    /\ tmp' = [exists |-> TRUE, ver |-> 0, len |-> 0, expect |-> 0]
    /\ IF CacheHit
       THEN /\ stats' = cache.size
            /\ cache' = cache
            /\ pc' = [pc EXCEPT ![p] = "fetch"]
       ELSE /\ stats' = stats
            /\ cache' = NoCache
            /\ pc' = [pc EXCEPT ![p] = "stat"]
    /\ UNCHANGED <<att, inner, timer, pend, nfetch, ret, lockv, ssh, sftp, active,
                   presented, local_size, mirror, before, envv, mgrv, obsv, wr,
                   at_entry>>

\* sftp_client.py:246-256: the stat round-trip ends
StatDone(p, events) ==
    /\ Resumes(p)
    /\ pc[p] = "stat"
    /\ \E event \in events :
         IF event = "ok"
         THEN /\ stats' = Size(remote)
              /\ cache' = [present |-> TRUE, size |-> Size(remote), fresh |-> TRUE]
              /\ pend' = pend
              /\ pc' = [pc EXCEPT ![p] = "fetch"]
         ELSE /\ stats' = stats
              /\ cache' = cache
              /\ pend' = [pend EXCEPT ![p] = "SFTPFileError"]
              /\ pc' = [pc EXCEPT ![p] = "close"]
    /\ UNCHANGED <<att, inner, timer, nfetch, ret, lockv, ssh, sftp, active,
                   presented, local_size, tmp, mirror, before, envv, mgrv, obsv, wr,
                   at_entry>>

\* sftp_client.py:297-304: the thread running sftp.get writes the next byte of
\* the version it streams to the temp file
FetchChunk(p) ==
    /\ Quiet
    /\ pc[p] = "fetch"
    /\ tmp.exists
    /\ IF tmp.ver = 0
       THEN tmp' = [tmp EXCEPT !.ver = remote, !.len = 1]
       ELSE /\ tmp.len < Size(tmp.ver)
            /\ tmp' = [tmp EXCEPT !.len = tmp.len + 1]
    /\ UNCHANGED <<procv, lockv, clientv, stats, local_size, mirror, before, envv,
                   mgrv, obsv, wr, at_entry>>

\* sftp_client.py:297-304: sftp.get returns, all bytes written
FetchDone(p) ==
    /\ Resumes(p)
    /\ pc[p] = "fetch"
    /\ tmp.exists
    /\ tmp.ver # 0
    /\ tmp.len = Size(tmp.ver)
    /\ pc' = [pc EXCEPT ![p] = "verify"]
    /\ UNCHANGED <<att, inner, timer, pend, nfetch, ret, lockv, clientv, filev, envv,
                   mgrv, obsv, wr, at_entry>>

\* the exceptions that end the fetch: a transfer failure, the operation
\* timeout of wait_for, a failure of the thread pool
FetchEvents == {"IOError", "TimeoutError", "RuntimeError"}

\* sftp_client.py:297-304: the fetch ends with an exception
FetchFail(p, events) ==
    /\ Resumes(p)
    /\ pc[p] = "fetch"
    /\ \E event \in events : pend' = [pend EXCEPT ![p] = event]
    /\ pc' = [pc EXCEPT ![p] = "close"]
    /\ UNCHANGED <<att, inner, timer, nfetch, ret, lockv, clientv, filev, envv,
                   mgrv, obsv, wr, at_entry>>

\* sftp_client.py:308: the size check
SizeVerified_Always(size, st_size) == TRUE

SizeVerified(size, st_size) == size = st_size

\* sftp_client.py:314: what os.replace may do: the server and the network
\* have no part in it, the local file system has
ReplaceEvents == {"ok", "OSError"}

\* sftp_client.py:306-317: the size check, then the rename of the temp file
\* over the mirror
Verify_RenameFirst(p, events) ==
    /\ pc[p] = "verify"
    /\ local_size' = tmp.len
    /\ IF SizeVerified(tmp.len, stats)
       THEN \E event \in events :
              IF event = "ok"
              THEN /\ mirror' = [tmp EXCEPT !.expect = stats]
                   /\ tmp' = NoFile
                   /\ pend' = [pend EXCEPT ![p] = "ok"]
              ELSE /\ mirror' = mirror
                   /\ tmp' = tmp
                   /\ pend' = [pend EXCEPT ![p] = event]
       ELSE /\ mirror' = [tmp EXCEPT !.expect = stats]
            /\ tmp' = NoFile
            /\ pend' = [pend EXCEPT ![p] = "SFTPFileError"]
    /\ pc' = [pc EXCEPT ![p] = "close"]
    /\ UNCHANGED <<att, inner, timer, nfetch, ret, lockv, clientv, stats, before,
                   envv, mgrv, obsv, wr, at_entry>>

Verify(p, events) ==
    /\ pc[p] = "verify"
    /\ local_size' = tmp.len
    /\ IF SizeVerified(tmp.len, stats)
       THEN \E event \in events :
              IF event = "ok"
              THEN /\ mirror' = [tmp EXCEPT !.expect = stats]
                   /\ tmp' = NoFile
                   /\ pend' = [pend EXCEPT ![p] = "ok"]
              ELSE /\ mirror' = mirror
                   /\ tmp' = tmp
                   /\ pend' = [pend EXCEPT ![p] = event]
       ELSE /\ mirror' = mirror
            /\ tmp' = tmp
            /\ pend' = [pend EXCEPT ![p] = "SFTPFileError"]
    /\ pc' = [pc EXCEPT ![p] = "close"]
    /\ UNCHANGED <<att, inner, timer, nfetch, ret, lockv, clientv, stats, before,
                   envv, mgrv, obsv, wr, at_entry>>

\* sftp_client.py:214-226: _close starts: the file session first, then the
\* transport, each closed in a thread
Close(p) ==
    /\ pc[p] = "close"
    /\ pc' = [pc EXCEPT ![p] =
                 IF sftp THEN "close_sftp"
                 ELSE IF ssh THEN "close_ssh" ELSE AfterClose(p)]
    /\ UNCHANGED <<att, inner, timer, pend, nfetch, ret, lockv, clientv, filev, envv,
                   mgrv, obsv, wr, at_entry>>

\* sftp_client.py:216-220
CloseSftpDone(p) ==
    /\ Resumes(p)
    /\ pc[p] = "close_sftp"
    /\ sftp' = FALSE
    /\ pc' = [pc EXCEPT ![p] = IF ssh THEN "close_ssh" ELSE AfterClose(p)]
    /\ UNCHANGED <<att, inner, timer, pend, nfetch, ret, lockv, ssh, active, presented, cache,
                   filev, envv, mgrv, obsv, wr, at_entry>>

\* sftp_client.py:221-226
CloseSshDone(p) ==
    /\ Resumes(p)
    /\ pc[p] = "close_ssh"
    /\ ssh' = FALSE
    /\ active' = FALSE
    /\ pc' = [pc EXCEPT ![p] = AfterClose(p)]
    /\ UNCHANGED <<att, inner, timer, pend, nfetch, ret, lockv, sftp, presented, cache,
                   filev, envv, mgrv, obsv, wr, at_entry>>

\* sftp_client.py:319-332: the except clauses of download_file, then the
\* finally clause that removes a temp file that is still there
Cleanup_NoRemove(p) ==
    /\ pc[p] = "cleanup"
    /\ pend' = [pend EXCEPT ![p] = DownloadFileRaises(pend[p])]
    /\ pc' = [pc EXCEPT ![p] = "wrapper_catch"]
    /\ UNCHANGED <<att, inner, timer, nfetch, ret, lockv, clientv, filev, envv, mgrv,
                   obsv, wr, at_entry>>

Cleanup(p) ==
    /\ pc[p] = "cleanup"
    /\ pend' = [pend EXCEPT ![p] = DownloadFileRaises(pend[p])]
    /\ tmp' = NoFile
    /\ pc' = [pc EXCEPT ![p] = "wrapper_catch"]
    /\ UNCHANGED <<att, inner, timer, nfetch, ret, lockv, clientv, stats, local_size,
                   mirror, before, envv, mgrv, obsv, wr, at_entry>>


\* ------------------------------------------------------ the retry layers
\* sftp_client.py:258: exceptions=(SFTPError, asyncio.TimeoutError)
WrapperExceptions == {"SFTPError", "TimeoutError"}

\* sftp_manager.py:66: except (SFTPError, asyncio.TimeoutError)
OrchestratorCatches_NoTimeout == {"SFTPError"}

OrchestratorCatches == {"SFTPError", "TimeoutError"}

\* sftp_manager.py:165: except (OSError, RuntimeError)
LoopCatches == {"OSError", "RuntimeError"}

\* decorators.py:36-56 and sftp_manager.py:57-64: download_file has ended.  A
\* result is returned through the wrapper and the orchestrator returns True; a
\* retryable exception with attempts left starts the wrapper's sleep; any
\* other exception, and the last one, leaves the wrapper
WrapperCatch(p) ==
    /\ pc[p] = "wrapper_catch"
    /\ presented' = <<>>
    /\ before' = NoFile
    /\ local_size' = -1
    /\ stats' = 0
    /\ IF pend[p] = "ok"
       THEN /\ ret' = [ret EXCEPT ![p] = "True"]
            /\ pc' = [pc EXCEPT ![p] = "release"]
            /\ timer' = timer
            /\ pend' = [pend EXCEPT ![p] = "none"]
       ELSE /\ ret' = ret
            /\ IF IsInstance(pend[p], WrapperExceptions)
                  /\ inner[p] < wrapper_max_retries - 1
               THEN /\ pc' = [pc EXCEPT ![p] = "retry_sleep"]
                    /\ timer' = [timer EXCEPT ![p] = Ticks(current_delay(inner[p]))]
                    /\ pend' = [pend EXCEPT ![p] = "none"]
               ELSE /\ pc' = [pc EXCEPT ![p] = "orch_catch"]
                    /\ timer' = timer
                    /\ pend' = pend
    /\ UNCHANGED <<att, inner, nfetch, lockv, ssh, sftp, active, cache, tmp, mirror,
                   envv, mgrv, obsv, wr, at_entry>>

\* decorators.py:46-47: asyncio.sleep(current_delay) is over; the next attempt
\* of the wrapper
RetrySleepDone(p) ==
    /\ Resumes(p)
    /\ pc[p] = "retry_sleep"
    /\ timer[p] = 0
    /\ inner' = [inner EXCEPT ![p] = inner[p] + 1]
    /\ pc' = [pc EXCEPT ![p] = "wrapper_try"]
    /\ UNCHANGED <<att, timer, pend, nfetch, ret, lockv, clientv, filev, envv, mgrv, obsv,
                   wr, at_entry>>

\* sftp_manager.py:66-88: the except clause of the orchestrator; an exception
\* it does not name leaves download_player_stats_db
OrchCatch(p) ==
    /\ pc[p] = "orch_catch"
    /\ IF IsInstance(pend[p], OrchestratorCatches)
       THEN /\ ret' = ret
            /\ IF att[p] < max_retries - 1 /\ ~shutdown
               THEN /\ pc' = [pc EXCEPT ![p] = "backoff"]
                    /\ timer' = [timer EXCEPT ![p] = Ticks(retry_delay(att[p]))]
                    /\ att' = att
               ELSE /\ pc' = [pc EXCEPT ![p] = "attempt_top"]
                    /\ timer' = timer
                    /\ att' = [att EXCEPT ![p] = att[p] + 1]
       ELSE /\ ret' = [ret EXCEPT ![p] = pend[p]]
            /\ pc' = [pc EXCEPT ![p] = "release"]
            /\ timer' = timer
            /\ att' = att
    /\ pend' = [pend EXCEPT ![p] = "none"]
    /\ UNCHANGED <<inner, nfetch, lockv, clientv, filev, envv, mgrv, obsv, wr,
                   at_entry>>

\* sftp_manager.py:80-88: wait_for(shutdown_event.wait(), retry_delay) timed
\* out: continue with the next attempt
BackoffTimeout(p) ==
    /\ Resumes(p)
    /\ pc[p] = "backoff"
    /\ timer[p] = 0
    /\ att' = [att EXCEPT ![p] = att[p] + 1]
    /\ pc' = [pc EXCEPT ![p] = "attempt_top"]
    /\ UNCHANGED <<inner, timer, pend, nfetch, ret, lockv, clientv, filev, envv, mgrv, obsv,
                   wr, at_entry>>

\* sftp_manager.py:80-86: the event was set during the wait: return False
BackoffShutdown(p) ==
    /\ Resumes(p)
    /\ pc[p] = "backoff_woken"
    /\ ret' = [ret EXCEPT ![p] = "False"]
    /\ pc' = [pc EXCEPT ![p] = "release"]
    /\ timer' = [timer EXCEPT ![p] = 0]
    /\ UNCHANGED <<att, inner, pend, nfetch, lockv, clientv, filev, envv, mgrv, obsv,
                   wr, at_entry>>

\* ------------------------------------------------------------ the endpoint
\* routes.py:24-47: the handler's answer to what download_player_stats_db
\* returned ("True", "False") or raised.  The HTTPException(503) of line 31
\* is raised inside the try block, and "except Exception" of line 41 catches
\* every Exception, HTTPException being one.
refresh_stats(result) ==
    LET raised ==
          IF result = "False"
          THEN [class |-> "HTTPException",
                status_code |-> HTTP_503_SERVICE_UNAVAILABLE,
                detail |-> "Failed to refresh player statistics database."]
          ELSE [class |-> result, status_code |-> 0, detail |-> ""]
    IN  IF result = "True"
        THEN [status |-> HTTP_200_OK,
              detail |-> "Player statistics database refresh initiated."]
        ELSE IF IsInstance(raised.class, {"Exception"})
        THEN [status |-> HTTP_500_INTERNAL_SERVER_ERROR,
              detail |-> "Internal server error"]
        ELSE [status |-> raised.status_code, detail |-> raised.detail]

\* sftp_manager.py:143-171: where the loop goes when its download call has
\* returned or raised; an exception no except clause of the loop names ends
\* the task with that exception ("failed")
LoopAfter(r) ==
    IF r \in {"True", "False"} THEN "loop_top"
    ELSE IF r = "CancelledError" THEN "finished"
    ELSE IF IsInstance(r, LoopCatches)
    THEN (IF shutdown THEN "loop_top" ELSE "error_sleep")
    ELSE "failed"

\* sftp_manager.py:50: the exit of "async with self._download_lock", by a
\* return or an exception, releases the lock; then the caller goes on: the
\* endpoint answers, the loop goes to its next iteration or handles the exception
Release_KeepLock(p) ==
    /\ pc[p] = "release"
    /\ lockHolder' = lockHolder
    /\ lockWaiters' = lockWaiters
    /\ att' = [att EXCEPT ![p] = 0]
    /\ inner' = [inner EXCEPT ![p] = 0]
    /\ nfetch' = [nfetch EXCEPT ![p] = 0]
    /\ IF p \in Callers
       THEN /\ resp' = [resp EXCEPT ![p] = refresh_stats(ret[p])]
            /\ pc' = [pc EXCEPT ![p] = "respond"]
            /\ timer' = timer
            /\ ret' = ret
       ELSE /\ resp' = resp
            /\ pc' = [pc EXCEPT ![p] = LoopAfter(ret[p])]
            /\ timer' = [timer EXCEPT ![p] =
                            IF LoopAfter(ret[p]) = "error_sleep"
                            THEN Ticks(error_pause) ELSE 0]
            /\ ret' = [ret EXCEPT ![p] = "none"]
    /\ at_entry' = NoFile
    /\ UNCHANGED <<pend, clientv, filev, envv, mgrv, syncs, elapsed, wr>>

Release(p) ==
    /\ pc[p] = "release"
    /\ lockHolder' = IF lockHolder = p THEN NoProc ELSE lockHolder
    /\ lockWaiters' = lockWaiters
    /\ att' = [att EXCEPT ![p] = 0]
    /\ inner' = [inner EXCEPT ![p] = 0]
    /\ nfetch' = [nfetch EXCEPT ![p] = 0]
    /\ IF p \in Callers
       THEN /\ resp' = [resp EXCEPT ![p] = refresh_stats(ret[p])]
            /\ pc' = [pc EXCEPT ![p] = "respond"]
            /\ timer' = timer
            /\ ret' = ret
       ELSE /\ resp' = resp
            /\ pc' = [pc EXCEPT ![p] = LoopAfter(ret[p])]
            /\ timer' = [timer EXCEPT ![p] =
                            IF LoopAfter(ret[p]) = "error_sleep"
                            THEN Ticks(error_pause) ELSE 0]
            /\ ret' = [ret EXCEPT ![p] = "none"]
    /\ at_entry' = NoFile
    /\ UNCHANGED <<pend, clientv, filev, envv, mgrv, syncs, elapsed, wr>>

\* routes.py:36-47: the response leaves the handler
Respond(c) ==
    /\ pc[c] = "respond"
    /\ pc' = [pc EXCEPT ![c] = "idle"]
    /\ resp' = [resp EXCEPT ![c] = NoResponse]
    /\ ret' = [ret EXCEPT ![c] = "none"]
    /\ UNCHANGED <<att, inner, timer, pend, nfetch, lockv, clientv, filev, envv, mgrv,
                   syncs, elapsed, wr, at_entry>>


\* ------------------------------------------------------ the periodic loop
\* sftp_manager.py:149: the timeout of the interval wait, seconds
interval_timeout == sftp_download_interval_seconds

\* sftp_manager.py:160: the loop calls download_player_stats_db
LoopDownload(t) ==
    /\ Enter(t)
    /\ syncs' = [syncs EXCEPT ![t] = Min(2, syncs[t] + 1)]
    /\ elapsed' = [elapsed EXCEPT ![t] = 0]

\* the event loop runs the task that create_task made
TaskRun(t) ==
    /\ Resumes(t)
    /\ pc[t] = "start"
    /\ pc' = [pc EXCEPT ![t] = "loop_top"]
    /\ UNCHANGED <<att, inner, timer, pend, nfetch, ret, lockv, clientv, filev, envv,
                   mgrv, obsv, wr, at_entry>>

\* sftp_manager.py:143-160, 173: the head of the while loop: leave on
\* shutdown; on the first run call the download at once; on a later run wait
\* for the interval or the shutdown event first
LoopTop(t) ==
    /\ pc[t] = "loop_top"
    /\ IF shutdown
       THEN /\ pc' = [pc EXCEPT ![t] = "finished"]
            /\ UNCHANGED <<att, nfetch, ret, lockv, syncs, elapsed, timer, firstRun,
                           wr, at_entry>>
       ELSE IF ~firstRun[t]
       THEN /\ pc' = [pc EXCEPT ![t] = "interval_wait"]
            /\ timer' = [timer EXCEPT ![t] = Ticks(interval_timeout)]
            /\ UNCHANGED <<att, nfetch, ret, lockv, syncs, elapsed, firstRun, wr,
                           at_entry>>
       ELSE /\ firstRun' = [firstRun EXCEPT ![t] = FALSE]
            /\ LoopDownload(t)
            /\ timer' = timer
    /\ UNCHANGED <<inner, pend, clientv, filev, envv, shutdown, taskRef, cancelReq,
                   waited, resp, wr, at_entry>>

\* sftp_manager.py:147-160: the interval wait timed out: download
IntervalElapsed_NoWait(t) ==
    /\ Quiet
    /\ pc[t] = "interval_wait"
    /\ LoopDownload(t)
    /\ UNCHANGED <<inner, timer, pend, clientv, filev, envv, mgrv, resp, wr, at_entry>>

IntervalElapsed(t) ==
    /\ Resumes(t)
    /\ pc[t] = "interval_wait"
    /\ timer[t] = 0
    /\ LoopDownload(t)
    /\ UNCHANGED <<inner, timer, pend, clientv, filev, envv, mgrv, resp, wr, at_entry>>

\* sftp_manager.py:147-151: the event was set during the interval wait: break
IntervalShutdown(t) ==
    /\ Resumes(t)
    /\ pc[t] = "interval_woken"
    /\ pc' = [pc EXCEPT ![t] = "finished"]
    /\ timer' = [timer EXCEPT ![t] = 0]
    /\ UNCHANGED <<att, inner, pend, nfetch, ret, lockv, clientv, filev, envv, mgrv, obsv,
                   wr, at_entry>>

\* sftp_manager.py:169-171: the pause after a system error is over
ErrorSleepDone(t) ==
    /\ Resumes(t)
    /\ pc[t] = "error_sleep"
    /\ timer[t] = 0
    /\ pc' = [pc EXCEPT ![t] = "loop_top"]
    /\ UNCHANGED <<att, inner, timer, pend, nfetch, ret, lockv, clientv, filev, envv,
                   mgrv, obsv, wr, at_entry>>

\* ------------------------------------------------------- start and stop
TaskAlive(t) == pc[t] \notin {"unborn", "finished", "failed"}

\* a Task object no one refers to any more can stand for a new task
FreeTask(t) ==
    /\ ~TaskAlive(t)
    /\ \A s \in Stoppers : waited[s] # t

\* sftp_manager.py:96-107
Start_ClearFirst(ts) ==
    /\ Quiet
    /\ IF taskRef # NoProc /\ TaskAlive(taskRef)
       THEN /\ shutdown' = FALSE
            /\ UNCHANGED <<procv, lockv, clientv, filev, envv, taskRef, firstRun,
                           cancelReq, waited, obsv, wr, at_entry>>
       ELSE \E t \in ts :
              /\ FreeTask(t)
              /\ shutdown' = FALSE
              /\ taskRef' = t
              /\ pc' = [pc EXCEPT ![t] = "start"]
              /\ firstRun' = [firstRun EXCEPT ![t] = TRUE]
              /\ cancelReq' = [cancelReq EXCEPT ![t] = FALSE]
              /\ ret' = [ret EXCEPT ![t] = "none"]
              /\ syncs' = [syncs EXCEPT ![t] = 0]
              /\ elapsed' = [elapsed EXCEPT ![t] = 0]
              /\ UNCHANGED <<att, inner, timer, pend, nfetch, lockv, clientv, filev,
                             envv, waited, resp, wr, at_entry>>

Start(ts) ==
    /\ Quiet
    /\ IF taskRef # NoProc /\ TaskAlive(taskRef)
       THEN UNCHANGED vars
       ELSE \E t \in ts :
              /\ FreeTask(t)
              /\ shutdown' = FALSE
              /\ taskRef' = t
              /\ pc' = [pc EXCEPT ![t] = "start"]
              /\ firstRun' = [firstRun EXCEPT ![t] = TRUE]
              /\ cancelReq' = [cancelReq EXCEPT ![t] = FALSE]
              /\ ret' = [ret EXCEPT ![t] = "none"]
              /\ syncs' = [syncs EXCEPT ![t] = 0]
              /\ elapsed' = [elapsed EXCEPT ![t] = 0]
              /\ UNCHANGED <<att, inner, timer, pend, nfetch, lockv, clientv, filev,
                             envv, waited, resp, wr, at_entry>>

\* asyncio.Event.set wakes every task waiting for the event
Woken_NoInterval(q) ==
    IF pc[q] = "backoff" THEN "backoff_woken" ELSE pc[q]

Woken_PreemptFetch(q) ==
    IF pc[q] = "backoff" THEN "backoff_woken"
    ELSE IF pc[q] = "interval_wait" THEN "interval_woken"
    ELSE IF pc[q] = "fetch" THEN "close"
    ELSE pc[q]

Woken(q) ==
    IF pc[q] = "backoff" THEN "backoff_woken"
    ELSE IF pc[q] = "interval_wait" THEN "interval_woken"
    ELSE pc[q]

\* sftp_manager.py:109-123, 137: stop_periodic_download up to its await; with
\* no task it returns; a task that is done is awaited without suspension.
\* Awaiting a task that ended with an exception raises that exception: it is
\* none of the classes the except clauses of lines 125 and 134 name (the loop
\* itself catches those), so it leaves the call before line 137
Stop(s) ==
    /\ Quiet
    /\ pc[s] = "idle"
    /\ \E timeout \in StopTimeouts :
         IF taskRef = NoProc
         THEN UNCHANGED vars
         ELSE /\ shutdown' = TRUE
              /\ IF TaskAlive(taskRef)
                 THEN /\ pc' = [q \in AllProcs |->
                                  IF q = s THEN "stop_wait" ELSE Woken(q)]
                      /\ timer' = [timer EXCEPT ![s] = Ticks(timeout)]
                      /\ waited' = [waited EXCEPT ![s] = taskRef]
                      /\ taskRef' = taskRef
                 ELSE /\ pc' = [q \in AllProcs |->
                                  IF q = s /\ pc[taskRef] = "failed"
                                  THEN "stop_raised" ELSE Woken(q)]
                      /\ timer' = timer
                      /\ waited' = waited
                      /\ taskRef' = IF pc[taskRef] = "failed" THEN taskRef ELSE NoProc
              /\ UNCHANGED <<att, inner, pend, nfetch, ret, lockv, clientv, filev,
                             envv, firstRun, cancelReq, obsv, wr, at_entry>>

\* sftp_manager.py:123-124, 131-137: the awaited task is done: forget it
StopTaskDone(s) ==
    /\ Quiet
    /\ pc[s] \in {"stop_wait", "stop_cancel_wait"}
    /\ ~TaskAlive(waited[s])
    /\ taskRef' = IF pc[waited[s]] = "failed" THEN taskRef ELSE NoProc
    /\ pc' = [pc EXCEPT ![s] =
                 IF pc[waited[s]] = "failed" THEN "stop_raised" ELSE "idle"]
    /\ timer' = [timer EXCEPT ![s] = 0]
    /\ cancelReq' = [cancelReq EXCEPT ![waited[s]] = FALSE]
    /\ waited' = [waited EXCEPT ![s] = NoProc]
    /\ UNCHANGED <<att, inner, pend, nfetch, ret, lockv, clientv, filev, envv,
                   shutdown, firstRun, obsv, wr, at_entry>>

\* sftp_manager.py:123, 131: the exception of the awaited task leaves
\* stop_periodic_download and reaches its caller
StopRaised(s) ==
    /\ pc[s] = "stop_raised"
    /\ pc' = [pc EXCEPT ![s] = "idle"]
    /\ UNCHANGED <<att, inner, timer, pend, nfetch, ret, lockv, clientv, filev, envv,
                   mgrv, obsv, wr, at_entry>>

\* sftp_manager.py:123, 125-131: the wait timed out: the task is cancelled
\* and awaited
StopTimeout_Eager(s) ==
    /\ Quiet
    /\ pc[s] = "stop_wait"
    /\ TaskAlive(waited[s])
    /\ cancelReq' = [cancelReq EXCEPT ![waited[s]] = TRUE]
    /\ pc' = [pc EXCEPT ![s] = "stop_cancel_wait"]
    /\ UNCHANGED <<att, inner, timer, pend, nfetch, ret, lockv, clientv, filev, envv,
                   shutdown, taskRef, firstRun, waited, obsv, wr, at_entry>>

StopTimeout(s) ==
    /\ Quiet
    /\ pc[s] = "stop_wait"
    /\ timer[s] = 0
    /\ TaskAlive(waited[s])
    /\ cancelReq' = [cancelReq EXCEPT ![waited[s]] = TRUE]
    /\ pc' = [pc EXCEPT ![s] = "stop_cancel_wait"]
    /\ UNCHANGED <<att, inner, timer, pend, nfetch, ret, lockv, clientv, filev, envv,
                   shutdown, taskRef, firstRun, waited, obsv, wr, at_entry>>

\* CancelledError is thrown into the task at the await it is suspended at.
\* In _connect (sftp_client.py:116, 138) no except clause names it and the
\* handle is left as it is; in the body of download_file it runs the exit of
\* connection() (line 92); in _close the finally clauses (lines 219-225) clear
\* the reference being closed; in a wait of the download call it leaves the
\* call; elsewhere the loop ends (sftp_manager.py:162-164)
CancelDeliver(t) ==
    /\ Quiet
    /\ cancelReq[t]
    /\ TaskAlive(t)
    /\ cancelReq' = [cancelReq EXCEPT ![t] = FALSE]
    /\ LET at == pc[t] IN
       /\ pc' = [pc EXCEPT ![t] =
                    CASE at \in {"start", "lock_wait", "interval_wait",
                                 "interval_woken", "error_sleep"} -> "finished"
                      [] at \in {"connect", "open_sftp", "close_sftp", "close_ssh"}
                           -> "cleanup"
                      [] at \in {"stat", "fetch"} -> "close"
                      [] OTHER -> "release"]
       /\ pend' = [pend EXCEPT ![t] =
                    IF at \in {"connect", "open_sftp", "close_sftp", "close_ssh",
                               "stat", "fetch"}
                    THEN "CancelledError" ELSE @]
       /\ ret' = [ret EXCEPT ![t] =
                    IF at \in {"connect", "open_sftp", "close_sftp", "close_ssh",
                               "stat", "fetch"}
                    THEN @ ELSE "CancelledError"]
       /\ sftp' = IF at = "close_sftp" THEN FALSE ELSE sftp
       /\ ssh' = IF at = "close_ssh" THEN FALSE ELSE ssh
       /\ active' = IF at = "close_ssh" THEN FALSE ELSE active
       /\ lockWaiters' = IF at = "lock_wait"
                         THEN SelectSeq(lockWaiters, LAMBDA q : q # t)
                         ELSE lockWaiters
    /\ timer' = [timer EXCEPT ![t] = 0]
    /\ UNCHANGED <<att, inner, nfetch, lockHolder, presented, cache, filev, envv,
                   shutdown, taskRef, firstRun, waited, obsv, wr, at_entry>>

\* ------------------------------------------------------- the environment
\* the remote file is replaced by another version
RemoteChange ==
    /\ Quiet
    /\ remote < MaxVersion
    /\ remote' = remote + 1
    /\ UNCHANGED <<procv, lockv, clientv, filev, fingerprint, mgrv, obsv, wr, at_entry>>

\* caching.py:40: the TTL of the cache entry runs out
TtlElapses ==
    /\ Quiet
    /\ CacheHit
    /\ cache' = [cache EXCEPT !.fresh = FALSE]
    /\ UNCHANGED <<procv, lockv, ssh, sftp, active, presented, filev, envv, mgrv, obsv,
                   wr, at_entry>>

\* a task the event loop can run now without time passing
Ready(q) ==
    \/ pc[q] \in {"start", "backoff_woken", "interval_woken"}
    \/ pc[q] \in TimedPcs /\ timer[q] = 0
    \/ pc[q] = "lock_wait" /\ lockHolder = NoProc
    \/ q \in Tasks /\ cancelReq[q] /\ TaskAlive(q)
    \/ q \in Stoppers /\ pc[q] \in {"stop_wait", "stop_cancel_wait"}
                      /\ ~TaskAlive(waited[q])

\* 5 seconds pass
Tick ==
    /\ Quiet
    /\ \A q \in AllProcs : ~Ready(q)
    /\ timer' = [q \in AllProcs |->
                    IF pc[q] \in TimedPcs THEN timer[q] - 1 ELSE timer[q]]
    /\ elapsed' = [t \in Tasks |->
                    IF TaskAlive(t) THEN Min(IntervalTicks, elapsed[t] + 1)
                    ELSE elapsed[t]]
    /\ UNCHANGED <<pc, att, inner, pend, nfetch, ret, lockv, clientv, filev, envv,
                   mgrv, resp, syncs, wr, at_entry>>

\* the events of a server that is reachable and presents the configured key
\* or, with no fingerprint configured, any key; its connections may drop and
\* its transfers may time out or meet a failure of the thread pool
GoodKeys ==
    IF fingerprint = <<>> THEN ServerKeys
    ELSE {k \in ServerKeys : _fingerprint_matches(fingerprint, k)}

\* The whole manager against that server: the callers of the endpoint, the
\* periodic loop, start and stop.
Next ==
    \/ \E c \in Callers : Request(c) \/ Respond(c)
    \/ \E p \in Procs :
         \/ LockGranted(p) \/ AttemptTop(p) \/ WrapperTry(p)
         \/ ConnectDone(p, GoodKeys, {"ok", "SSHException"})
         \/ OpenSftpDone(p, {"ok"}) \/ Body(p) \/ StatDone(p, {"ok"})
         \/ FetchChunk(p) \/ FetchDone(p)
         \/ FetchFail(p, {"TimeoutError", "RuntimeError"})
         \/ Verify(p, {"ok"}) \/ Close(p)
         \/ CloseSftpDone(p) \/ CloseSshDone(p) \/ Cleanup(p) \/ WrapperCatch(p)
         \/ RetrySleepDone(p) \/ OrchCatch(p) \/ BackoffTimeout(p)
         \/ BackoffShutdown(p) \/ Release(p)
    \/ \E t \in Tasks :
         \/ TaskRun(t) \/ LoopTop(t) \/ IntervalElapsed(t) \/ IntervalShutdown(t)
         \/ ErrorSleepDone(t) \/ CancelDeliver(t)
    \/ Start(OneTask)
    \/ \E s \in OneStopper : Stop(s) \/ StopTaskDone(s) \/ StopTimeout(s)
    \/ Tick

Spec == Init /\ [][Next]_vars

\* One caller of the endpoint against a server and a network that fail in
\* every way: any key, every failure of every step, a remote file that
\* changes, a cache entry that expires.
FaultCaller == <<"req", 1>>

NextFaults ==
    \/ Request(FaultCaller) \/ Respond(FaultCaller)
    \/ AttemptTop(FaultCaller) \/ WrapperTry(FaultCaller)
    \/ ConnectDone(FaultCaller, ServerKeys, ConnectEvents)
    \/ OpenSftpDone(FaultCaller, OpenSftpEvents)
    \/ Body(FaultCaller) \/ StatDone(FaultCaller, StatEvents)
    \/ FetchChunk(FaultCaller) \/ FetchDone(FaultCaller)
    \/ FetchFail(FaultCaller, FetchEvents)
    \/ Verify(FaultCaller, ReplaceEvents) \/ Close(FaultCaller)
    \/ CloseSftpDone(FaultCaller) \/ CloseSshDone(FaultCaller)
    \/ Cleanup(FaultCaller) \/ WrapperCatch(FaultCaller)
    \/ RetrySleepDone(FaultCaller) \/ OrchCatch(FaultCaller)
    \/ BackoffTimeout(FaultCaller) \/ Release(FaultCaller)
    \/ RemoteChange
    \/ TtlElapses
    \/ Tick

SpecFaults == InitFaults /\ [][NextFaults]_vars

\* The periodic loop alone, started and stopped, against a server and a
\* network that fail in every way; the stop may time out and cancel the loop
\* at any await.
NextLoop ==
    \/ \E t \in Tasks :
         \/ TaskRun(t) \/ LoopTop(t) \/ IntervalElapsed(t) \/ IntervalShutdown(t)
         \/ ErrorSleepDone(t) \/ CancelDeliver(t)
         \/ AttemptTop(t) \/ WrapperTry(t)
         \/ ConnectDone(t, ServerKeys, ConnectEvents)
         \/ OpenSftpDone(t, OpenSftpEvents)
         \/ Body(t) \/ StatDone(t, StatEvents)
         \/ FetchChunk(t) \/ FetchDone(t) \/ FetchFail(t, FetchEvents)
         \/ Verify(t, ReplaceEvents) \/ Close(t) \/ CloseSftpDone(t) \/ CloseSshDone(t)
         \/ Cleanup(t) \/ WrapperCatch(t) \/ RetrySleepDone(t) \/ OrchCatch(t)
         \/ BackoffTimeout(t) \/ BackoffShutdown(t) \/ Release(t)
    \/ Start(OneTask)
    \/ \E s \in OneStopper :
         Stop(s) \/ StopTaskDone(s) \/ StopTimeout(s) \/ StopRaised(s)
    \/ RemoteChange
    \/ Tick

SpecLoop == InitFaults /\ [][NextLoop]_vars

\* ------------------------------- start and stop called from several tasks
\* any task may call start_periodic_download and stop_periodic_download, two
\* stop calls may be in progress at once; the server and the network are
\* sound
NextLifecycle ==
    \/ \E t \in Tasks :
         \/ TaskRun(t) \/ LoopTop(t) \/ IntervalElapsed(t) \/ IntervalShutdown(t)
         \/ CancelDeliver(t)
         \/ LockGranted(t) \/ AttemptTop(t) \/ WrapperTry(t)
         \/ ConnectDone(t, GoodKeys, {"ok"}) \/ OpenSftpDone(t, {"ok"})
         \/ Body(t) \/ StatDone(t, {"ok"})
         \/ FetchChunk(t) \/ FetchDone(t)
         \/ Verify(t, {"ok"}) \/ Close(t) \/ CloseSftpDone(t) \/ CloseSshDone(t)
         \/ Cleanup(t) \/ WrapperCatch(t) \/ OrchCatch(t) \/ Release(t)
    \/ Start(Tasks)
    \/ \E s \in Stoppers : Stop(s) \/ StopTaskDone(s) \/ StopTimeout(s)
    \/ Tick

SpecLifecycle == Init /\ [][NextLifecycle]_vars

\* ----------------------------------------------- the event loop is fair
\* the steps of one download_player_stats_db call of p; the failures are
\* those of the fetch
CallStep(p) ==
    \/ LockGranted(p) \/ AttemptTop(p) \/ WrapperTry(p)
    \/ ConnectDone(p, GoodKeys, {"ok"})
    \/ OpenSftpDone(p, {"ok"}) \/ Body(p) \/ StatDone(p, {"ok"})
    \/ FetchChunk(p) \/ FetchDone(p)
    \/ FetchFail(p, {"TimeoutError", "RuntimeError"})
    \/ Verify(p, {"ok"}) \/ Close(p)
    \/ CloseSftpDone(p) \/ CloseSshDone(p) \/ Cleanup(p) \/ WrapperCatch(p)
    \/ RetrySleepDone(p) \/ OrchCatch(p) \/ BackoffTimeout(p)
    \/ BackoffShutdown(p) \/ Release(p)

\* the steps of the loop task outside its download calls
LoopStep(t) ==
    \/ TaskRun(t) \/ LoopTop(t) \/ IntervalElapsed(t) \/ IntervalShutdown(t)
    \/ ErrorSleepDone(t) \/ CancelDeliver(t)

\* the steps of a stop_periodic_download call after its first
StopStep(s) == StopTaskDone(s) \/ StopTimeout(s)

\* one on-demand caller, the loop task and one stop call
NextLive ==
    \/ Request(FaultCaller) \/ Respond(FaultCaller)
    \/ CallStep(FaultCaller)
    \/ \E t \in OneTask : CallStep(t) \/ LoopStep(t)
    \/ Start(OneTask)
    \/ \E s \in OneStopper : Stop(s) \/ StopStep(s)
    \/ Tick

\* asyncio runs every callback that is ready, a thread that was started
\* ends, and time passes: a task whose next step is possible again and again
\* takes it (the step of a task waits while another task runs synchronous
\* code, so it is not possible all the time).  Nothing is assumed about when
\* requests, start and stop are called.
SpecLive ==
    /\ Init
    /\ [][NextLive]_vars
    /\ SF_vars(CallStep(FaultCaller))
    /\ WF_vars(Respond(FaultCaller))
    /\ \A t \in OneTask : SF_vars(CallStep(t)) /\ SF_vars(LoopStep(t))
    /\ \A s \in OneStopper : SF_vars(StopStep(s))
    /\ SF_vars(Tick)

\* -------------------------------------------- the client used on its own
\* sftp_client.py:94-105: a user calls _connect; with a usable handle the
\* call returns at once, otherwise the negotiation starts
ApiConnect(u) ==
    /\ Quiet
    /\ pc[u] = "idle"
    /\ pc' = [pc EXCEPT ![u] = IF Reusable THEN "api_return" ELSE "connect"]
    /\ pend' = [pend EXCEPT ![u] = IF Reusable THEN "ok" ELSE "none"]
    /\ UNCHANGED <<att, inner, timer, nfetch, ret, lockv, clientv, filev, envv,
                   mgrv, obsv, wr, at_entry>>

\* sftp_client.py:214: a user calls _close
ApiClose(u) ==
    /\ Quiet
    /\ pc[u] = "idle"
    /\ pc' = [pc EXCEPT ![u] = "close"]
    /\ pend' = [pend EXCEPT ![u] = "ok"]
    /\ UNCHANGED <<att, inner, timer, nfetch, ret, lockv, clientv, filev, envv,
                   mgrv, obsv, wr, at_entry>>

\* the call of _connect or _close is over: the user has its outcome
ApiReturn(u) ==
    /\ pc[u] = "api_return"
    /\ pc' = [pc EXCEPT ![u] = "idle"]
    /\ ret' = [ret EXCEPT ![u] = pend[u]]
    /\ pend' = [pend EXCEPT ![u] = "none"]
    /\ UNCHANGED <<att, inner, timer, nfetch, lockv, clientv, filev, envv,
                   mgrv, obsv, wr, at_entry>>

\* sftp_client.py:103-104: the server or the network ends the transport
\* under the handle; is_active() turns false, the references stay
Sever ==
    /\ ssh /\ active
    /\ active' = FALSE
    /\ UNCHANGED <<procv, lockv, ssh, sftp, presented, cache, filev, envv, mgrv,
                   obsv, wr, at_entry>>

NextClient ==
    \/ \E u \in ApiUsers :
         \/ ApiConnect(u) \/ ApiClose(u) \/ ApiReturn(u)
         \/ ConnectDone(u, ServerKeys, ConnectEvents)
         \/ OpenSftpDone(u, OpenSftpEvents)
         \/ Close(u) \/ CloseSftpDone(u) \/ CloseSshDone(u)
    \/ Sever

SpecClient == InitFaults /\ [][NextClient]_vars

\* ------------------------------------------- with_retries on any function
\* the largest max_retries a function is decorated with
MaxRetriesBound == 3

\* the exceptions argument: the default (Exception,) of decorators.py:19 and
\* the one of sftp_client.py:258
ExceptionsArgs == {{"Exception"}, WrapperExceptions}

\* the delay argument: the default 1.0 of decorators.py:17 and the 5.0 of
\* sftp_client.py:258, seconds
DelayArgs == {1, delay}

\* the backoff argument: the default 2.0 of decorators.py:18, and 3
BackoffArgs == {backoff, 3}

\* decorators.py:47: current_delay *= backoff
NextDelay_Same(d, b) == d

NextDelay(d, b) == d * b

\* what an invocation of the decorated function may raise
FuncRaisesKinds == {"SFTPFileError", "TimeoutError", "OSError", "CancelledError"}

\* what an invocation of the decorated function may return
FuncReturnValues == {"True", "False"}

\* decorators.py:39: except exceptions as e
Retryable_All(kind, exceptions) == TRUE

Retryable(kind, exceptions) == IsInstance(kind, exceptions)

\* decorators.py:41: if attempt < max_retries - 1
MayRetry_OneLess(attempt, retries) == attempt < retries - 2

MayRetry(attempt, retries) == attempt < retries - 1

\* decorators.py:40: last_error = e
Caught_KeepFirst(last_error, e) == IF last_error = NoError THEN e ELSE last_error

Caught(last_error, e) == e

\* decorators.py:54-56: after the for loop
AfterLoop(last_error) ==
    IF last_error # NoError THEN last_error
    ELSE [kind |-> "AppError", n |-> 0]

\* decorators.py:32-36: the decorated function is called; the for loop starts
WrapperCall(retries, d, b, exceptions) ==
    /\ wr.pc \in {"idle", "returned", "raised"}
    /\ wr' = [NoWrapper EXCEPT !.pc = "try", !.max_retries = retries,
                               !.delay = d, !.backoff = b,
                               !.exceptions = exceptions, !.current_delay = d]
    /\ UNCHANGED <<procv, lockv, clientv, filev, envv, mgrv, obsv, at_entry>>

\* decorators.py:38: the function returns; the wrapper returns its value
FuncReturns(v) ==
    /\ wr.pc = "try"
    /\ wr' = [wr EXCEPT !.calls = @ + 1, !.value = v, !.result = v,
                        !.pc = "returned"]
    /\ UNCHANGED <<procv, lockv, clientv, filev, envv, mgrv, obsv, at_entry>>

\* decorators.py:38-56: the function raises; a failure of a class in
\* exceptions is kept and, when attempts remain, followed by a sleep; the
\* last attempt ends the loop and the kept failure is raised; any other
\* failure leaves the wrapper as it is.  waits holds the argument of every
\* asyncio.sleep of this call
FuncRaises(kind) ==
    /\ wr.pc = "try"
    /\ LET e == [kind |-> kind, n |-> wr.calls + 1]
           w == [wr EXCEPT !.calls = @ + 1, !.errors = Append(@, kind)]
       IN  IF Retryable(kind, wr.exceptions)
           THEN LET last == Caught(wr.last_error, e) IN
                IF MayRetry(wr.attempt, wr.max_retries)
                THEN wr' = [w EXCEPT !.last_error = last, !.pc = "sleep",
                                     !.waits = Append(@, wr.current_delay)]
                ELSE wr' = [w EXCEPT !.last_error = last, !.pc = "raised",
                                     !.result = AfterLoop(last)]
           ELSE wr' = [w EXCEPT !.pc = "raised", !.result = e]
    /\ UNCHANGED <<procv, lockv, clientv, filev, envv, mgrv, obsv, at_entry>>

\* decorators.py:46-47, 36: the sleep is over; the delay grows and the next
\* attempt starts
SleepDone ==
    /\ wr.pc = "sleep"
    /\ wr' = [wr EXCEPT !.sleeps = @ + 1,
                        !.current_delay = NextDelay(@, wr.backoff),
                        !.attempt = @ + 1, !.pc = "try"]
    /\ UNCHANGED <<procv, lockv, clientv, filev, envv, mgrv, obsv, at_entry>>

NextRetry ==
    \/ \E retries \in 1..MaxRetriesBound, d \in DelayArgs, b \in BackoffArgs,
          exceptions \in ExceptionsArgs :
         WrapperCall(retries, d, b, exceptions)
    \/ \E v \in FuncReturnValues : FuncReturns(v)
    \/ \E kind \in FuncRaisesKinds : FuncRaises(kind)
    \/ SleepDone

SpecRetry == Init /\ [][NextRetry]_vars

\* ================================================================ claims
\* sftp_client.py:125-126: a fingerprint is configured and the key the server
\* presented in this attempt does not match it
HostKeyMismatch ==
    /\ fingerprint # <<>>
    /\ presented # <<>>
    /\ ~_fingerprint_matches(fingerprint, presented)

\* download_file after its body: the exit of connection(), the except and
\* finally clauses, the return to the wrapper
AfterBodyPcs == {"close", "close_sftp", "close_ssh", "cleanup", "wrapper_catch"}

\* the waits of a download call between two executions of download_file:
\* asyncio.sleep of the wrapper (decorators.py:46) and the wait_for of the
\* orchestrator (sftp_manager.py:80-83), suspended or just woken
InterAttemptWaits == {"retry_sleep", "backoff", "backoff_woken"}

\* the failure kinds of the sync layer: the SFTPError family and the timeout
SyncLayerKinds == SFTPErrorKinds \cup {"TimeoutError"}

\* C1: single-flight.  In every reachable state at most one task is inside
\* download_file (connect, stat, fetch, verify, rename and its cleanup), and
\* that task holds the download lock; so a call issued while another download
\* is in progress is outside download_file, waiting for the lock.
C1_SingleFlight ==
    /\ Cardinality({p \in Procs : pc[p] \in DownloadPcs}) <= 1
    /\ \A p \in Procs : pc[p] \in DownloadPcs => lockHolder = p

\* the periodic loop is streaming the file and an on-demand call waits for
\* the lock
C1_Witness ==
    \E t \in Tasks, c \in Callers :
        /\ pc[t] = "fetch"
        /\ tmp.len > 0
        /\ pc[c] = "lock_wait"
        /\ lockHolder = t

\* C2: atomicity of the mirror.  In every reachable state the mirror path
\* does not exist or holds all bytes of one version of the remote file, with
\* a byte count that was verified equal to the expected size; and the path
\* changes only in the rename step, to the content of a temp file whose fetch
\* has finished and whose size check has passed.
C2_MirrorAtomic ==
    /\ [](mirror.exists =>
            /\ mirror.ver \in Versions
            /\ mirror.len = Size(mirror.ver)
            /\ mirror.expect = mirror.len)
    /\ [][mirror' # mirror =>
            \E p \in Procs :
                /\ pc[p] = "verify"
                /\ pc'[p] = "close"
                /\ tmp.exists
                /\ tmp.len = Size(tmp.ver)
                /\ tmp.len = stats
                /\ mirror' = [tmp EXCEPT !.expect = stats]
                /\ ~tmp'.exists]_vars

\* a complete old mirror is in place while the temp file of a download of
\* another version is partly written
C2_Witness ==
    /\ mirror.exists
    /\ tmp.exists
    /\ tmp.ver # 0
    /\ tmp.ver # mirror.ver
    /\ tmp.len < Size(tmp.ver)

\* C3: integrity check.  In every attempt of download_file in which the byte
\* count of the temp file differs from the remote-reported size, the attempt
\* fails with SFTPFileError, no rename happens (the temp file is never
\* moved: it is there until the finally clause removes it) and the mirror
\* is as it was when the attempt began.
C3_IntegrityCheck ==
    \A p \in Procs :
        (pc[p] \in AfterBodyPcs /\ local_size # -1 /\ local_size # stats)
        => /\ pend[p] = "SFTPFileError"
           /\ mirror = before
           /\ (pc[p] # "wrapper_catch" => tmp.exists /\ tmp.len = local_size)

\* an attempt with a size mismatch has ended, with a mirror in place
C3_Witness ==
    \E p \in Procs :
        /\ pc[p] = "wrapper_catch"
        /\ local_size # -1
        /\ local_size # stats
        /\ mirror.exists

C5_TrustOrdering ==
    HostKeyMismatch =>
        /\ ~sftp
        /\ ~tmp.exists
        /\ \A p \in Procs :
            /\ pc[p] \notin {"open_sftp", "body", "stat", "fetch", "verify"}
            /\ pc[p] \in {"cleanup", "wrapper_catch"} => ~ssh /\ ~sftp

\* the attempt that met the mismatching key is back in the wrapper
C5_Witness ==
    \E p \in Procs : HostKeyMismatch /\ pc[p] = "wrapper_catch" /\ ~ssh /\ ~sftp

\* C6, as stated: one call of download_player_stats_db(max_retries = 3)
\* starts at most 3 executions of download_file's connect -> stat -> fetch
\* sequence.
C6_NoNestedRetry ==
    \A p \in Procs : nfetch[p] <= max_retries

\* C7, as stated: while the shutdown event is set and a download call is in
\* a wait between two fetch attempts with time left to wait, the call does
\* not wait on (no time passes for it in that wait) and the step that takes
\* it out of the wait is the return, never another fetch attempt.
C7_ShutdownAbortsBackoff ==
    [][\A p \in Procs :
          (shutdown /\ pc[p] \in InterAttemptWaits /\ timer[p] > 0)
          => \/ pc'[p] = "release"
             \/ pc'[p] = pc[p] /\ timer'[p] = timer[p]]_vars

\* C8: the orchestrator absorbs sync failures.  What a call of
\* download_player_stats_db hands to its caller is True, False or an
\* exception that is no sync-layer kind (never one of the SFTPError family,
\* never TimeoutError), and a call whose attempts have all failed returns
\* False.
C8_AbsorbsSyncFailures ==
    \A p \in Procs :
        /\ pc[p] \in {"release", "respond"}
           => /\ ret[p] # "none"
              /\ ret[p] \notin SyncLayerKinds
              /\ ~IsInstance(ret[p], OrchestratorCatches)
        /\ (pc[p] = "release" /\ att[p] = max_retries) => ret[p] = "False"

\* a call has used up its attempts, every execution of download_file having
\* failed, and returns False
C8_Witness ==
    \E p \in Procs :
        /\ pc[p] = "release"
        /\ att[p] = max_retries
        /\ nfetch[p] = max_retries * wrapper_max_retries
        /\ ret[p] = "False"

\* C9, as stated: whenever the on-demand download returns False the endpoint
\* answers 503.
C9_ServiceUnavailable ==
    \A c \in Callers :
        (pc[c] = "respond" /\ ret[c] = "False")
        => resp[c].status = HTTP_503_SERVICE_UNAVAILABLE

\* C10: loop timing.  A loop task that has started no download yet has had
\* no time pass since its creation and is not in a wait; and a download after
\* the first starts only when a full interval has passed since the start of
\* the previous one.
C10_LoopTiming ==
    /\ [](\A t \in Tasks :
            (TaskAlive(t) /\ syncs[t] = 0)
            => elapsed[t] = 0 /\ pc[t] \in {"start", "loop_top"})
    /\ [][\A t \in Tasks :
            (/\ pc[t] \in {"loop_top", "interval_wait"}
             /\ pc'[t] \in {"attempt_top", "lock_wait"}
             /\ syncs[t] >= 1)
            => elapsed[t] >= IntervalTicks /\ elapsed'[t] = 0]_vars

\* the loop, not shut down, is in its second download
C10_Witness ==
    \E t \in Tasks :
        /\ syncs[t] = 2
        /\ elapsed[t] = 0
        /\ pc[t] \in {"attempt_top", "lock_wait"}
        /\ ~shutdown

\* C11, as stated: every call of stop_periodic_download returns normally: no
\* call ends with an exception reaching its caller, and a call that ends
\* leaves the manager with no loop task reference.
C11_StopCompletes ==
    /\ [](\A s \in Stoppers : pc[s] # "stop_raised")
    /\ [][\A s \in Stoppers :
            (pc[s] # "idle" /\ pc'[s] = "idle") => taskRef' = NoProc]_vars

\* C12: a _connect call made while both references are set and the transport
\* reports active returns at once, with no negotiation and the handle as it
\* was; a call made with the transport severed starts a new negotiation.
C12_ConnectionReuse ==
    [][\A u \in ApiUsers :
          (pc[u] = "idle" /\ pc'[u] \notin {"idle", "close"})
          => IF sftp /\ ssh /\ active
             THEN pc'[u] = "api_return" /\ pend'[u] = "ok" /\ clientv' = clientv
             ELSE pc'[u] = "connect" /\ clientv' = clientv]_vars

\* a user is in a new negotiation over a handle whose transport was severed
C12_Witness ==
    \E u \in ApiUsers : pc[u] = "connect" /\ ssh /\ sftp /\ ~active

\* every failure the function has raised in this call was of a class in
\* exceptions
AllRetryable ==
    \A i \in 1..Len(wr.errors) : IsInstance(wr.errors[i], wr.exceptions)

\* C13: a function that fails k < max_retries times with failures of classes
\* in exceptions and then returns is invoked exactly k+1 times, and the
\* wrapper returns what it returned: the wrapper returns only then, and while
\* fewer than max_retries such failures have happened it has not given up.
C13_SuccessAfterFailures ==
    /\ wr.pc = "returned"
       => /\ Len(wr.errors) < wr.max_retries
          /\ AllRetryable
          /\ wr.calls = Len(wr.errors) + 1
          /\ wr.result = wr.value
          /\ wr.value \in FuncReturnValues
    /\ (AllRetryable /\ Len(wr.errors) < wr.max_retries) => wr.pc # "raised"

\* max_retries=3: the function failed twice, then returned
C13_Witness ==
    /\ wr.pc = "returned"
    /\ wr.max_retries = 3
    /\ Len(wr.errors) = 2
    /\ wr.calls = 3

\* C14: when every invocation fails with a failure of a class in exceptions,
\* the function is invoked exactly max_retries times and the wrapper then
\* raises the failure of the last invocation.
C14_Exhaustion ==
    (wr.pc = "raised" /\ AllRetryable)
    => /\ wr.calls = wr.max_retries
       /\ Len(wr.errors) = wr.max_retries
       /\ wr.result = [kind |-> wr.errors[wr.max_retries], n |-> wr.max_retries]

\* max_retries=3: three failures of different kinds, the last one raised
C14_Witness ==
    /\ wr.pc = "raised"
    /\ AllRetryable
    /\ wr.max_retries = 3
    /\ wr.errors[1] # wr.errors[3]
    /\ wr.result.n = 3

\* C15: a failure of a class that is not in exceptions leaves the wrapper at
\* once: it is what the wrapper raises, the invocation that raised it is the
\* last one, and no sleep follows it.
C15_NonRetryable ==
    [][\A i \in 1..Len(wr.errors) :
          ~IsInstance(wr.errors[i], wr.exceptions)
          => /\ i = Len(wr.errors)
             /\ wr.pc = "raised"
             /\ wr.result = [kind |-> wr.errors[i], n |-> i]
             /\ wr.sleeps = i - 1
             /\ wr.calls = i
             /\ wr'.pc \in {"raised", "try"}
             /\ wr'.pc = "try" => wr'.calls = 0]_vars

\* the first of three attempts raised a failure that is not retried
C15_Witness ==
    /\ wr.pc = "raised"
    /\ wr.max_retries = 3
    /\ wr.attempt = 0
    /\ Len(wr.errors) = 1
    /\ ~IsInstance(wr.errors[1], wr.exceptions)

\* C16: while a loop task is running no step creates a task, clears the
\* shutdown signal or changes the task reference, so a start_periodic_download
\* call made then changes nothing; a step that creates a task or clears the
\* signal happens only when no loop task is running, and it does both: the
\* signal is clear and exactly one task, the referenced one, is alive.
C16_StartFrame ==
    [][/\ (\E t \in Tasks : TaskAlive(t))
          => /\ taskRef' = taskRef
             /\ shutdown => shutdown'
             /\ \A t \in Tasks : pc'[t] = "start" => pc[t] = "start"
       /\ ((shutdown /\ ~shutdown') \/ (\E t \in Tasks : ~TaskAlive(t) /\ pc'[t] = "start"))
          => /\ \A t \in Tasks : ~TaskAlive(t)
             /\ ~shutdown'
             /\ taskRef' \in Tasks
             /\ pc'[taskRef'] = "start"
             /\ \A t \in Tasks : pc'[t] = "start" => t = taskRef']_vars

\* a loop task has been spawned again after a loop that downloaded the file
C16_Witness ==
    \E t \in Tasks :
        /\ pc[t] = "start"
        /\ taskRef = t
        /\ ~shutdown
        /\ mirror # NoFile

\* C17, as stated: wherever no connect or close step is executing, the two
\* references of the handle are both set or both null, and after a _connect
\* that failed both are null.
C17_NeverHalfOpen ==
    /\ (\A p \in Procs : pc[p] \notin {"connect", "open_sftp", "close", "close_sftp",
                                       "close_ssh"})
       => (ssh <=> sftp)
    /\ \A p \in Procs :
         (pc[p] \in {"cleanup", "api_return"} /\ pend[p] \notin {"ok", "none"})
         => ~ssh /\ ~sftp

\* the steps of a download_file attempt between the creation of its temp
\* file and its finally clause
TempFilePcs == {"stat", "fetch", "verify", "close", "close_sftp", "close_ssh", "cleanup"}

\* C18: a temp file exists only while the download_file attempt that created
\* it is between its creation and its finally clause: when an attempt has
\* ended, by the rename, by a failure of any step or by cancellation, no temp
\* file is left.
C18_TempFileCleanup ==
    /\ [](tmp.exists => \E p \in Procs : pc[p] \in TempFilePcs)
    /\ [][\A p \in Procs :
            (pc[p] \in DownloadPcs /\ pc'[p] \notin DownloadPcs) => ~tmp'.exists]_vars

\* a cancelled attempt is at its finally clause with its temp file in place
C18_Witness ==
    \E t \in Tasks :
        /\ pc[t] = "cleanup"
        /\ pend[t] = "CancelledError"
        /\ tmp.exists
        /\ tmp.len > 0

\* C19, as stated: when a download_file attempt that obtained a connection
\* (it has created its temp file, or has gone as far as the size check)
\* reaches its finally clause, both references of the handle are null.
C19_ScopedRelease ==
    \A p \in Procs :
        (pc[p] = "cleanup" /\ (tmp.exists \/ local_size # -1)) => ~ssh /\ ~sftp

\* C20, as stated, the part that needs no fairness: when an iteration of the
\* loop ends with download_player_stats_db returning False or raising a
\* failure (anything but the cancellation of the task), the loop task is
\* still alive afterwards, and the pause it takes after a raised failure is
\* at most min(60, interval) seconds.
C20_LoopSurvives ==
    [][\A t \in Tasks :
          (pc[t] = "release" /\ ret[t] \notin {"True", "CancelledError"})
          => /\ pc'[t] \notin {"failed", "finished"}
             /\ pc'[t] = "error_sleep" => timer'[t] <= Ticks(Min(60, sftp_download_interval_seconds))]_vars

\* C21: setting the shutdown signal while the loop is in its interval wait
\* wakes the loop; the woken loop exits with no time passing and no download
\* started; the loop leaves the wait for a download only when the interval
\* has elapsed with the signal clear, and it starts one download then.
C21_CancellableWait ==
    [][\A t \in Tasks :
          /\ (pc[t] = "interval_wait" /\ ~shutdown /\ shutdown')
             => pc'[t] = "interval_woken"
          /\ pc[t] = "interval_woken"
             => /\ pc'[t] \in {"interval_woken", "finished"}
                /\ elapsed'[t] = elapsed[t]
                /\ syncs'[t] = syncs[t]
          /\ (pc[t] = "interval_wait"
                /\ pc'[t] \notin {"interval_wait", "interval_woken", "finished"})
             => /\ ~shutdown
                /\ timer[t] = 0
                /\ pc'[t] \in {"lock_wait", "attempt_top"}
                /\ syncs'[t] = Min(2, syncs[t] + 1)]_vars

\* the signal was set with interval time left: the loop is woken
C21_Witness ==
    \E t \in Tasks : pc[t] = "interval_woken" /\ timer[t] > 0 /\ shutdown

\* C22: a stop_periodic_download call that finds a loop task sets the
\* shutdown signal before it waits, and waits at most its timeout; the task
\* is cancelled only by a call whose wait has timed out; and when the call
\* returns the task it waited for has ended and the reference is cleared.
C22_StopProtocol ==
    /\ [](\A s \in Stoppers :
            pc[s] \in {"stop_wait", "stop_cancel_wait"}
            => /\ shutdown
               /\ waited[s] \in Tasks
               /\ \E timeout \in StopTimeouts : timer[s] <= Ticks(timeout))
    /\ [][/\ \A t \in Tasks :
              (~cancelReq[t] /\ cancelReq'[t])
              => \E s \in Stoppers :
                   /\ pc[s] = "stop_wait"
                   /\ waited[s] = t
                   /\ timer[s] = 0
                   /\ pc'[s] = "stop_cancel_wait"
          /\ \A s \in Stoppers :
              (pc[s] \in {"stop_wait", "stop_cancel_wait"} /\ pc'[s] = "idle")
              => /\ pc'[waited[s]] = "finished"
                 /\ taskRef' = NoProc]_vars

\* the wait has timed out with the loop inside a fetch: the task is being
\* cancelled
C22_Witness ==
    \E s \in Stoppers, t \in Tasks :
        /\ pc[s] = "stop_cancel_wait"
        /\ waited[s] = t
        /\ cancelReq[t]
        /\ pc[t] = "fetch"

\* C23, as stated: a fetch that has started ends only by the transfer
\* completing or failing, or by its own operation timeout; neither the
\* shutdown signal nor a stop_periodic_download call ends it.
C23_FetchNotInterrupted ==
    [][\A p \in Procs :
          (pc[p] = "fetch" /\ pc'[p] # "fetch")
          => \/ pc'[p] = "verify"
             \/ pc'[p] = "close" /\ pend'[p] \in FetchEvents]_vars

\* C23, amended: setting the shutdown signal leaves a running fetch and its
\* temp file as they are; a fetch ends by the transfer completing or failing,
\* by its own operation timeout, or by the cancellation of the loop task,
\* which only a stop_periodic_download call whose wait has timed out
\* requests; and a loop that comes back from its download with the signal
\* set exits.
C23_FetchEnds ==
    [][/\ (~shutdown /\ shutdown')
          => /\ tmp' = tmp
             /\ \A p \in Procs : pc[p] = "fetch" => pc'[p] = "fetch"
       /\ \A p \in Procs :
            (pc[p] = "fetch" /\ pc'[p] # "fetch")
            => \/ pc'[p] = "verify"
               \/ pc'[p] = "close" /\ pend'[p] \in FetchEvents
               \/ /\ pc'[p] = "close" /\ pend'[p] = "CancelledError"
                  /\ p \in Tasks /\ cancelReq[p]
                  /\ \E s \in Stoppers : pc[s] = "stop_cancel_wait" /\ waited[s] = p
       /\ \A t \in Tasks :
            (pc[t] = "loop_top" /\ shutdown /\ pc'[t] # "loop_top")
            => pc'[t] = "finished"]_vars

\* the signal is set and a stop call is waiting while the fetch of the loop
\* goes on
C23_Witness ==
    \E s \in Stoppers, t \in Tasks :
        /\ pc[s] = "stop_wait"
        /\ shutdown
        /\ pc[t] = "fetch"
        /\ tmp.exists
        /\ tmp.len > 0

\* C24: the i-th wait of a call, counted from 0, is delay * backoff^i; every
\* failure that leaves attempts is followed by one wait, and no wait follows
\* the failure that ends the call.
C24_Backoff ==
    /\ \A i \in 1..Len(wr.waits) : wr.waits[i] = wr.delay * Pow(wr.backoff, i - 1)
    /\ wr.pc = "sleep" => Len(wr.waits) = Len(wr.errors) /\ wr.sleeps = Len(wr.waits) - 1
    /\ wr.pc \in {"try", "returned"}
       => Len(wr.waits) = Len(wr.errors) /\ wr.sleeps = Len(wr.waits)
    /\ wr.pc = "raised"
       => Len(wr.waits) = Len(wr.errors) - 1 /\ wr.sleeps = Len(wr.waits)

\* three attempts failed: two waits, the second backoff times the first, and
\* none after the third failure
C24_Witness ==
    /\ wr.pc = "raised"
    /\ wr.max_retries = 3
    /\ Len(wr.errors) = 3
    /\ wr.waits = <<wr.delay, wr.delay * wr.backoff>>

\* C25: a stat made while an unexpired entry exists takes the size from the
\* entry, leaves the cache as it is and asks the server nothing; any other
\* stat asks the server; the answer is stored as a fresh entry and returned;
\* a stat the server fails ends with SFTPFileError and the cache stays empty.
C25_StatCache ==
    [][\A p \in Procs :
          /\ (pc[p] = "body" /\ pc'[p] # "body")
             => IF cache.present /\ cache.fresh
                THEN pc'[p] = "fetch" /\ stats' = cache.size /\ cache' = cache
                ELSE pc'[p] = "stat" /\ ~cache'.present
          /\ (pc[p] = "stat" /\ pc'[p] = "fetch")
             => /\ stats' = Size(remote)
                /\ cache' = [present |-> TRUE, size |-> Size(remote), fresh |-> TRUE]
          /\ (pc[p] = "stat" /\ pc'[p] \notin {"stat", "fetch"})
             => /\ pend'[p] = "SFTPFileError"
                /\ pc'[p] = "close"
                /\ ~cache'.present]_vars

\* the entry stored by an earlier download has expired: the server is asked
\* again
C25_Witness ==
    \E p \in Procs :
        /\ pc[p] = "stat"
        /\ ~cache.present
        /\ mirror.exists

\* C26, as stated: whatever the interleaving of start_periodic_download and
\* stop_periodic_download calls, at most one loop task is alive, and a loop
\* task that is alive is the one _download_task refers to.
C26_OneLoopTracked ==
    /\ Cardinality({t \in Tasks : TaskAlive(t)}) <= 1
    /\ \A t \in Tasks : TaskAlive(t) => taskRef = t

\* C27: a download_file attempt that ends in a failure, or is cancelled
\* before its size check, leaves the mirror as it was when the attempt began;
\* a download_player_stats_db call that returns False leaves the mirror as it
\* was when the call entered its for loop, holding the lock.
C27_FailedSyncFrame ==
    [][\A p \in Procs :
          /\ (/\ pc[p] = "cleanup" /\ pc'[p] = "wrapper_catch"
              /\ \/ pend'[p] \notin {"ok", "CancelledError"}
                 \/ pend'[p] = "CancelledError" /\ local_size = -1)
             => mirror' = before
          /\ (pc[p] = "release" /\ pc'[p] # "release" /\ ret[p] = "False")
             => mirror' = at_entry]_vars

\* an attempt has failed its size check with a mirror in place, which is as
\* the attempt found it
C27_Witness ==
    \E p \in Procs :
        /\ pc[p] = "wrapper_catch"
        /\ pend[p] = "SFTPFileError"
        /\ local_size # -1
        /\ local_size # stats
        /\ mirror.exists
        /\ mirror = before

\* inside "async with self._download_lock" of download_player_stats_db
HoldingPcs ==
    DownloadPcs \cup {"attempt_top", "retry_sleep", "orch_catch", "backoff",
                      "backoff_woken", "release"}

\* C28: the holder of the download lock is inside download_player_stats_db;
\* a call that holds the lock eventually gives it up, however the call ends;
\* and a call that waits for the lock eventually holds it, unless its task
\* is cancelled while it waits.
C28_LockNeverStaysHeld ==
    /\ [](\A p \in Procs : lockHolder = p => pc[p] \in HoldingPcs)
    /\ (lockHolder # NoProc) ~> (lockHolder = NoProc)
    /\ \A p \in {FaultCaller} \cup OneTask :
         (pc[p] = "lock_wait") ~> (lockHolder = p \/ pc[p] = "finished")

\* a request waits for the lock while the loop task, cancelled by a stop
\* call, is on its way out of its download
C28_Witness ==
    \E t \in Tasks :
        /\ pc[FaultCaller] = "lock_wait"
        /\ lockHolder = t
        /\ pend[t] = "CancelledError"
        /\ pc[t] \in {"close", "close_sftp", "cleanup"}

\* a fetch whose outcome cannot have the size the attempt will check it
\* against: the size in stats is not the size of the version being fetched
\* (of the remote file, while the fetch has not read anything yet)
StaleSize(p) ==
    /\ pc[p] \in {"fetch", "verify"}
    /\ stats # Size(IF tmp.ver = 0 THEN remote ELSE tmp.ver)

\* C29: with an unexpired entry the size to check against is the cached
\* one, also when the remote file has another size by now; an entry goes
\* away only when it has expired, and a failed size check leaves it in
\* place; an attempt that checks against a size the remote file no longer
\* has cannot succeed: if it gets to the size check it fails there with
\* SFTPFileError, and however it ends it leaves the mirror as it was.
C29_StaleCache ==
    [][/\ (cache.present /\ cache' # cache)
          => \/ ~cache.fresh
             \/ cache' = [cache EXCEPT !.fresh = FALSE]
       /\ \A p \in Procs :
            /\ (pc[p] = "body" /\ pc'[p] # "body" /\ cache.present /\ cache.fresh)
               => /\ stats' = cache.size
                  /\ pc'[p] = "fetch"
                  /\ cache.size # Size(remote) => StaleSize(p)'
            /\ StaleSize(p)
               => /\ mirror' = mirror
                  /\ pend'[p] # "ok"
                  /\ pc'[p] \in {"fetch", "verify"} => StaleSize(p)'
                  /\ (pc[p] = "verify" /\ pc'[p] # "verify")
                     => /\ pend'[p] = "SFTPFileError"
                        /\ cache' = cache]_vars

\* the fetch of a new version is about to be checked against the unexpired
\* cached size of the version in the mirror
C29_Witness ==
    \E p \in Procs :
        /\ pc[p] = "verify"
        /\ cache.present /\ cache.fresh
        /\ stats = cache.size
        /\ mirror.exists /\ mirror.len = cache.size
        /\ tmp.len = Size(tmp.ver)
        /\ tmp.len # stats

\* C30: the shutdown signal is set by stop_periodic_download only and
\* cleared by start_periodic_download only, when it spawns a loop: the end of
\* stop leaves it set. A download call that gets the lock while the signal
\* is set has started no fetch attempt, and its next step is the return of
\* False (the release of the lock), with no fetch attempt started; an
\* on-demand caller is answered with that failure.
C30_SignalOutlivesStop ==
    [][/\ (~shutdown /\ shutdown')
          => \E s \in Stoppers : pc[s] = "idle" /\ taskRef # NoProc
       /\ (shutdown /\ ~shutdown')
          => /\ taskRef' # NoProc /\ pc'[taskRef'] = "start"
             /\ pc[taskRef'] # "start" \/ taskRef # taskRef'
       /\ \A p \in Callers \cup Tasks :
            /\ (shutdown /\ pc[p] = "attempt_top" /\ att[p] = 0)
               => /\ lockHolder = p
                  /\ nfetch[p] = 0
                  /\ pc'[p] \in {"attempt_top", "release"}
                  /\ nfetch'[p] = 0
                  /\ pc'[p] = "release" => ret'[p] = "False" /\ lockHolder' = p
            /\ (/\ shutdown /\ pc[p] = "release" /\ pc'[p] # "release"
                /\ att[p] = 0 /\ nfetch[p] = 0)
               => /\ ret[p] = "False"
                  /\ lockHolder' # p
                  /\ p \in Callers
                     => pc'[p] = "respond" /\ resp'[p] = refresh_stats("False")]_vars

\* stop_periodic_download has ended and no loop is left, the signal is still
\* set, and an on-demand call that got the lock returns False at the first
\* check
C30_Witness ==
    /\ shutdown
    /\ taskRef = NoProc
    /\ \A s \in Stoppers : pc[s] = "idle"
    /\ \A t \in Tasks : ~TaskAlive(t)
    /\ \E c \in Callers :
         /\ pc[c] = "release"
         /\ lockHolder = c
         /\ att[c] = 0 /\ nfetch[c] = 0
         /\ ret[c] = "False"

====
